---- MODULE Spec2Model ----
(***************************************************************************)
(* Model of pomodoro.cpp, a pomodoro timer for the Adafruit Circuit        *)
(* Playground Express.  The source holds two variants of the sketch        *)
(* (lines 1-235 and lines 237-492); `variant` says which one is flashed.   *)
(*                                                                         *)
(* The main loop is cut into steps at every access to a variable that an   *)
(* interrupt service routine also touches (isPaused, didTogglePause,       *)
(* playTones, isOn, displayStats) and at the reading of the clock, so that *)
(* the interrupt handlers and the passing of time interleave with the loop *)
(* exactly where the hardware lets them.                                   *)
(*                                                                         *)
(* Time is counted in units of 16 microseconds (UNIT_US): every duration   *)
(* of the program is a multiple of it, `x >> 4` of a time in microseconds  *)
(* is then exact, and the 32-bit words of the target board (unsigned long  *)
(* micros(), long duration) become 28-bit words of units (WORD).           *)
(***************************************************************************)
EXTENDS Integers, Sequences, FiniteSets, TLC

VARIABLES
    variant,          \* 1: sketch of lines 1-235, 2: sketch of lines 237-492
    pc,               \* position of the main loop
    isPaused, didTogglePause, playTones, isOn, displayStats,   \* volatile flags
    state, color, sound, duration,                             \* current period
    numPixels, lastNumPixels,
    thisCyclePomoCt, totalPomoCt,
    timePassed,       \* local of loop(): the delta of this pass
    elapsed,          \* micros() - lastMicros, as a true (unwrapped) time
    lights,           \* the ten NeoPixels: index -> colour, 0 is dark
    tone,             \* pitch the speaker was asked to play by the last step, 0: none
    \* history variables, read by the properties only
    phaseLog,         \* the periods entered so far, oldest first
    evSince,          \* an interrupt fired since the last transition was completed
    trackIdle,        \* whether the three variables below are recorded (SpecIdle)
    pausedByTap,      \* the current pause was entered by togglePaused
    idleSince,        \* idle time inside `elapsed`: 0 none, 1 tap pause only, 2 other
    idlePassed        \* idleSince of the delta held in timePassed

vars == << variant, pc, isPaused, didTogglePause, playTones, isOn, displayStats,
           state, color, sound, duration, numPixels, lastNumPixels,
           thisCyclePomoCt, totalPomoCt, timePassed, elapsed, lights, tone,
           phaseLog, evSince, trackIdle, pausedByTap, idleSince, idlePassed >>

timerState == << state, color, sound, duration, numPixels, lastNumPixels,
                 thisCyclePomoCt, totalPomoCt >>

----------------------------------------------------------------------------
(* Program constants *)

PITCH_C3 == 130
PITCH_E3 == 164
PITCH_G3 == 196
CT_NEOPIXELS == 10
WORK_SECONDS == 1500
SBRK_SECONDS == 300
LBRK_SECONDS == 900
WORK_COLOR == 16714507      \* 0xff0b0b
SBRK_COLOR == 16714495      \* 0xff0aff
LBRK_COLOR == 720895        \* 0x0affff
NUM_WORK_BEFORE_LONG_BREAK == 4

UNIT_US == 2^4                          \* microseconds per unit of model time
US_PER_S == 1000000 \div UNIT_US        \* the 1000000 of WORK_US, in units
WORK_US == US_PER_S * WORK_SECONDS
SBRK_US == US_PER_S * SBRK_SECONDS
LBRK_US == US_PER_S * LBRK_SECONDS

colors == << WORK_COLOR, SBRK_COLOR, LBRK_COLOR >>
sounds == << PITCH_C3, PITCH_E3, PITCH_G3 >>
durations == << WORK_US, SBRK_US, LBRK_US >>

\* C arrays are indexed from 0, TLA+ sequences from 1.
At(arr, i) == arr[i + 1]

----------------------------------------------------------------------------
(* Machine arithmetic of the target board (32-bit long and unsigned long) *)

WORD == (2^16) * ((2^16) \div UNIT_US)   \* 2^32 microseconds, in units
HALF == WORD \div 2

\* Conversion of an unsigned long to long.
ToLong(u) == IF u >= HALF THEN u - WORD ELSE u

\* duration -= timePassed: long - unsigned long is computed as unsigned long
\* and stored back into the long.
SubLong(dur, tp) == ToLong((dur - tp) % WORD)

\* micros(): the low 32 bits of the true time t.
ReadMicros(t) == t % WORD

\* Mutant of DeltaMicros: the difference is taken without the unsigned wrap.
DeltaMicrosUnwrapped(thisMicros, lastMicros) == thisMicros - lastMicros

\* timePassed = thisMicros - lastMicros, in unsigned long.
DeltaMicros(thisMicros, lastMicros) == (thisMicros - lastMicros) % WORD

\* x >> 4 of a non-negative time x.
Shr4(x) == (x * UNIT_US) \div 16

Min(a, b) == IF a < b THEN a ELSE b

\* Mutant of NumPixelsFor: the 1 + is left out.
NumPixelsWithoutOne(dur, st) ==
    Min(CT_NEOPIXELS, (CT_NEOPIXELS * Shr4(dur)) \div Shr4(At(durations, st)))

\* numPixels = min(CT_NEOPIXELS, 1 + (CT_NEOPIXELS * (duration >> 4) / (durations[state] >> 4)))
NumPixelsFor(dur, st) ==
    Min(CT_NEOPIXELS, 1 + ((CT_NEOPIXELS * Shr4(dur)) \div Shr4(At(durations, st))))

----------------------------------------------------------------------------
(* The NeoPixels *)

Pixels == 0 .. (CT_NEOPIXELS - 1)

clearPixels == [i \in Pixels |-> 0]

\* setPixelColor(i, c); the library ignores an index that is not a pixel.
setPixelColor(px, i, c) == IF i \in Pixels THEN [px EXCEPT ![i] = c] ELSE px

RECURSIVE BinaryLoop(_, _, _, _)
BinaryLoop(px, n, lightNum, c) ==
    IF n > 0
    THEN BinaryLoop(IF n % 2 = 1 THEN setPixelColor(px, lightNum, c) ELSE px,
                    n \div 2, lightNum + 1, c)
    ELSE px

\* Mutant of drawNLightsBinaryWithColor: lightNum starts at 1.
drawNLightsBinaryFromOne(n, c) == BinaryLoop(clearPixels, n, 1, c)

drawNLightsBinaryWithColor(n, c) == BinaryLoop(clearPixels, n, 0, c)

RECURSIVE FillLoop(_, _, _, _)
FillLoop(px, i, n, c) ==
    IF i < n THEN FillLoop(setPixelColor(px, i, c), i + 1, n, c) ELSE px

drawNLightsWithColor(n, c) == FillLoop(clearPixels, 0, n, c)

\* The values of lightNum that the loop of drawNLightsBinaryWithColor hands to
\* setPixelColor.
RECURSIVE BinaryAddressed(_, _)
BinaryAddressed(n, lightNum) ==
    IF n > 0
    THEN (IF n % 2 = 1 THEN {lightNum} ELSE {}) \cup BinaryAddressed(n \div 2, lightNum + 1)
    ELSE {}

----------------------------------------------------------------------------
(* Bounds of the model *)

\* Time stops once this many work periods are completed.
MaxTotal == 5
\* At most this many Tick steps between two readings of the clock.
MaxTicks == 1

\* The largest count of completed work periods whose stats display is drawn
\* (SpecStats); above 2^CT_NEOPIXELS, so that counts the display cannot show occur.
MaxCount == 2050

\* How far around each tenth of a period the remaining times of SpecPass lie.
MaxOff == 1

\* The amounts of time one Tick step lets pass.  StepTick, the grain of model
\* time, divides the three durations.  BigTick (about 41.6 minutes) is more than
\* 2^31 microseconds and is chosen so that WORD - BigTick is a multiple of
\* StepTick; that long passes only while the loop waits (see Waiting).
StepTick == SBRK_US
BigTick == WORD - 6 * StepTick
Ticks == {StepTick, BigTick}

\* The values micros() - lastMicros takes: sums of at most MaxTicks ticks that
\* stay below one period of the clock.
ElapsedValues ==
    {v \in {a * StepTick + b * BigTick : a \in 0 .. MaxTicks, b \in 0 .. MaxTicks} :
        /\ v < WORD
        /\ \E a \in 0 .. MaxTicks, b \in 0 .. MaxTicks :
              a + b <= MaxTicks /\ v = a * StepTick + b * BigTick}

\* The model counts time from the last reading of the clock (elapsed) and does
\* not keep the value of lastMicros: a reading is taken for each of these values
\* of lastMicros, some of them so late that the counter wraps before the reading.
ClockOrigins == {0, StepTick, HALF, WORD - BigTick, WORD - StepTick, WORD - 1}

----------------------------------------------------------------------------
(* The state transition of loop(), lines 167-205 and 420-457 *)

\* Mutant of NextState: the counter is compared before it is incremented.
NextStateCompareFirst(st, cyc) ==
    IF st = 0
    THEN IF cyc = NUM_WORK_BEFORE_LONG_BREAK THEN 2 ELSE 1
    ELSE 0

\* The period that follows period st when cyc work periods are counted.
NextState(st, cyc) ==
    IF st = 0
    THEN IF cyc + 1 = NUM_WORK_BEFORE_LONG_BREAK THEN 2 ELSE 1
    ELSE 0

\* Mutant of NextCycleCt: the counter is not reset at the long break.
NextCycleCtNoReset(st, cyc) == IF st = 0 THEN cyc + 1 ELSE cyc

NextCycleCt(st, cyc) ==
    IF st = 0
    THEN IF cyc + 1 = NUM_WORK_BEFORE_LONG_BREAK THEN 0 ELSE cyc + 1
    ELSE cyc

\* Mutant of NextTotalCt: the total is counted outside the test of the work state.
NextTotalCtEveryPeriod(st, total) == total + 1

NextTotalCt(st, total) == IF st = 0 THEN total + 1 ELSE total

\* Mutant of EndTone: the tone is played without looking at playTones.
EndToneAlways(play, snd) == snd

\* if (playTones) playTone(sound, SOUND_DURATION_MS): the pitch played, 0 for none.
EndTone(play, snd) == IF play THEN snd ELSE 0

\* Mutant of PausedAtBoundary: the transition does not pause.
PausedAtBoundaryKept(p) == p

\* isPaused = true at the end of the transition.
PausedAtBoundary(p) == TRUE

\* numPixels after the transition: the first variant resets it, the second does not.
NumPixelsAtBoundary(v, np) == IF v = 1 THEN CT_NEOPIXELS ELSE np

----------------------------------------------------------------------------
(* The frame one turn of the pause animation leaves on the NeoPixels *)

PauseFrame(v, np, c, total) ==
    LET base == IF v = 1 THEN drawNLightsBinaryWithColor(total, WORK_COLOR)
                         ELSE clearPixels
    IN  [i \in Pixels |-> IF i < np THEN c ELSE base[i]]

----------------------------------------------------------------------------
(* Initial state: the globals' initialisers and setup() *)

InitState ==
    /\ variant \in {1, 2}
    /\ pc = "isOn"
    /\ isPaused = FALSE
    /\ didTogglePause = FALSE
    /\ playTones = TRUE
    /\ isOn \in BOOLEAN            \* setup() reads the slide switch (first variant)
    /\ (variant = 2 => isOn)       \* the second variant starts with isOn = true
    /\ displayStats = FALSE
    /\ state = 0
    /\ color = At(colors, 0)
    /\ sound = At(sounds, 0)
    /\ duration = At(durations, 0)
    /\ numPixels = 10
    /\ lastNumPixels = 10
    /\ thisCyclePomoCt = 0
    /\ totalPomoCt = 0
    /\ timePassed = 0
    /\ elapsed = 0
    /\ lights = drawNLightsWithColor(10, At(colors, 0))
    /\ tone = 0
    /\ phaseLog = << 0 >>
    /\ evSince = TRUE
    /\ pausedByTap = FALSE
    /\ idleSince = 0
    /\ idlePassed = 0

Init == InitState /\ trackIdle = FALSE

\* The same program, with the idle time inside each delta recorded.
InitIdle == InitState /\ trackIdle = TRUE

----------------------------------------------------------------------------
(* Interrupt service routines *)

\* What an interrupt leaves alone: the main loop's own variables and the clock.
IsrFrame ==
    /\ tone' = 0
    /\ evSince' = TRUE
    /\ UNCHANGED << variant, pc, timerState, timePassed, elapsed, lights,
                    phaseLog, trackIdle, idlePassed >>

\* A handler of the second variant that clears isPaused ends a pause without a tap.
EndedIdle == IF trackIdle /\ isPaused /\ idleSince = 1 THEN 2 ELSE idleSince

\* Tap on the board.
togglePaused ==
    /\ isPaused' = ~isPaused
    /\ didTogglePause' = TRUE
    /\ pausedByTap' = (trackIdle /\ ~isPaused)
    /\ UNCHANGED << playTones, isOn, displayStats, idleSince >>
    /\ IsrFrame

\* Left button; only the second variant attaches it.
toggleDisplayMode ==
    /\ variant = 2
    /\ displayStats' = ~displayStats
    /\ isPaused' = FALSE
    /\ pausedByTap' = FALSE
    /\ idleSince' = EndedIdle
    /\ UNCHANGED << didTogglePause, playTones, isOn >>
    /\ IsrFrame

\* Right button.
togglePlayTones ==
    /\ playTones' = ~playTones
    /\ isPaused' = IF variant = 2 THEN FALSE ELSE isPaused
    /\ pausedByTap' = IF variant = 2 THEN FALSE ELSE pausedByTap
    /\ idleSince' = IF variant = 2 THEN EndedIdle ELSE idleSince
    /\ UNCHANGED << didTogglePause, isOn, displayStats >>
    /\ IsrFrame

\* Slide switch.
toggleIsOn ==
    /\ isOn' = ~isOn
    /\ isPaused' = IF variant = 2 THEN FALSE ELSE isPaused
    /\ pausedByTap' = IF variant = 2 THEN FALSE ELSE pausedByTap
    /\ idleSince' = IF variant = 2 THEN EndedIdle ELSE idleSince
    /\ UNCHANGED << didTogglePause, playTones, displayStats >>
    /\ IsrFrame

----------------------------------------------------------------------------
(* The passing of time *)

\* The loop waits: it spins through the !isOn branch, or it is held in
\* while (isPaused).
Waiting ==
    \/ pc = "isOn" /\ ~isOn
    \/ pc = "whilePaused" /\ isPaused

Tick(d) ==
    /\ totalPomoCt < MaxTotal
    /\ d = BigTick => Waiting
    /\ elapsed + d \in ElapsedValues
    /\ elapsed' = elapsed + d
    /\ idleSince' = IF ~trackIdle THEN idleSince
                    ELSE IF ~isOn \/ (isPaused /\ ~pausedByTap) THEN 2
                    ELSE IF isPaused /\ idleSince = 0 THEN 1
                    ELSE idleSince
    /\ tone' = 0
    /\ UNCHANGED << variant, pc, isPaused, didTogglePause, playTones, isOn,
                    displayStats, timerState, timePassed, lights,
                    phaseLog, evSince, trackIdle, pausedByTap, idlePassed >>

----------------------------------------------------------------------------
(* The main loop, one action per step of loop() *)

\* What a step of the loop leaves alone unless it says otherwise.
flags == << isPaused, didTogglePause, playTones, isOn, displayStats >>
history == << phaseLog, evSince, trackIdle, pausedByTap >>
clock == << elapsed, idleSince >>

\* if (!isOn) clearPixels();                          lines 113-118, 363, 460-464
LoopIsOn ==
    /\ pc = "isOn"
    /\ IF isOn
       THEN /\ pc' = IF variant = 1 THEN "whilePaused" ELSE "stats"
            /\ lights' = lights
       ELSE /\ pc' = "isOn"
            /\ lights' = clearPixels
    /\ tone' = 0
    /\ UNCHANGED << variant, flags, timerState, timePassed, clock, history, idlePassed >>

\* if (displayStats) drawNLightsBinaryWithColor(totalPomoCt, WORK_COLOR);   lines 365-367
LoopStats ==
    /\ pc = "stats"
    /\ IF displayStats
       THEN /\ pc' = "statsClear"
            /\ lights' = drawNLightsBinaryWithColor(totalPomoCt, WORK_COLOR)
       ELSE /\ pc' = "ifPaused"
            /\ lights' = lights
    /\ tone' = 0
    /\ UNCHANGED << variant, flags, timerState, timePassed, clock, history, idlePassed >>

\* delay(2000); displayStats = false;                                      lines 368-369
LoopStatsClear ==
    /\ pc = "statsClear"
    /\ displayStats' = FALSE
    /\ pc' = "ifPaused"
    /\ tone' = 0
    /\ UNCHANGED << variant, isPaused, didTogglePause, playTones, isOn, timerState,
                    timePassed, clock, lights, history, idlePassed >>

\* if (isPaused) ... else ...                                              line 372
LoopIfPaused ==
    /\ pc = "ifPaused"
    /\ pc' = IF isPaused THEN "whilePaused" ELSE "micros"
    /\ tone' = 0
    /\ UNCHANGED << variant, flags, timerState, timePassed, clock, lights, history,
                    idlePassed >>

\* One turn of while (isPaused): the pause animation.       lines 120-134, 375-387
PauseAnimation ==
    /\ pc = "whilePaused"
    /\ isPaused
    /\ lights' = PauseFrame(variant, numPixels, color, totalPomoCt)
    /\ pc' = "whilePaused"
    /\ tone' = 0
    /\ UNCHANGED << variant, flags, timerState, timePassed, clock, history, idlePassed >>

\* while (isPaused) finds isPaused false.                          lines 120, 375
LoopPauseExit ==
    /\ pc = "whilePaused"
    /\ ~isPaused
    /\ pc' = IF variant = 1 THEN "micros" ELSE "isOn"
    /\ tone' = 0
    /\ UNCHANGED << variant, flags, timerState, timePassed, clock, lights, history,
                    idlePassed >>

\* thisMicros = micros(); timePassed = thisMicros - lastMicros;
\* lastMicros = thisMicros;                                  lines 138-140, 391-393
LoopMicros ==
    /\ pc = "micros"
    /\ \E lastMicros \in ClockOrigins :
          LET thisMicros == ReadMicros(lastMicros + elapsed)
          IN  timePassed' = DeltaMicros(thisMicros, lastMicros)
    /\ elapsed' = 0               \* lastMicros = thisMicros
    /\ idlePassed' = idleSince
    /\ idleSince' = 0
    /\ pc' = "didToggle"
    /\ tone' = 0
    /\ UNCHANGED << variant, flags, timerState, lights, history >>

\* if (didTogglePause) drawNLightsWithColor(numPixels, color);    lines 144-146, 395-397
LoopDidToggle ==
    /\ pc = "didToggle"
    /\ IF didTogglePause
       THEN /\ pc' = "clearToggle"
            /\ lights' = drawNLightsWithColor(numPixels, color)
       ELSE /\ pc' = "advance"
            /\ lights' = lights
    /\ tone' = 0
    /\ UNCHANGED << variant, flags, timerState, timePassed, clock, history, idlePassed >>

\* didTogglePause = false; timePassed = 0;                    lines 147-149, 398-400
LoopClearToggle ==
    /\ pc = "clearToggle"
    /\ didTogglePause' = FALSE
    /\ timePassed' = 0
    /\ pc' = "advance"
    /\ tone' = 0
    /\ UNCHANGED << variant, isPaused, playTones, isOn, displayStats, timerState,
                    clock, lights, history, idlePassed >>

\* if (duration >= 0) {...}  if (duration < 0) {... playTone ... drawNLightsWithColor(10, color);
\*                                                            lines 153-200, 404-453
LoopAdvance ==
    /\ pc = "advance"
    /\ LET count  == duration >= 0
           np     == IF count THEN NumPixelsFor(duration, state) ELSE numPixels
           redraw == count /\ np # lastNumPixels
           left   == IF count THEN SubLong(duration, timePassed) ELSE duration
           st     == NextState(state, thisCyclePomoCt)
       IN  IF left < 0
           THEN /\ state' = st
                /\ thisCyclePomoCt' = NextCycleCt(state, thisCyclePomoCt)
                /\ totalPomoCt' = NextTotalCt(state, totalPomoCt)
                /\ color' = At(colors, st)
                /\ sound' = At(sounds, st)
                /\ duration' = At(durations, st)
                /\ tone' = EndTone(playTones, At(sounds, st))
                /\ lights' = drawNLightsWithColor(10, At(colors, st))
                /\ numPixels' = np
                /\ lastNumPixels' = IF redraw THEN np ELSE lastNumPixels
                /\ phaseLog' = Append(phaseLog, st)
                /\ evSince' = FALSE
                /\ pc' = "setPaused"
           ELSE /\ duration' = left
                /\ numPixels' = np
                /\ lastNumPixels' = IF redraw THEN np ELSE lastNumPixels
                /\ lights' = IF redraw THEN drawNLightsWithColor(np, color) ELSE lights
                /\ tone' = 0
                /\ pc' = "isOn"
                /\ UNCHANGED << state, color, sound, thisCyclePomoCt, totalPomoCt,
                                phaseLog, evSince >>
    /\ timePassed' = 0               \* the local is not read again in this pass
    /\ idlePassed' = 0
    /\ UNCHANGED << variant, flags, clock, trackIdle, pausedByTap >>

\* isPaused = true; numPixels = CT_NEOPIXELS;                 lines 203-204, 456
LoopSetPaused ==
    /\ pc = "setPaused"
    /\ isPaused' = PausedAtBoundary(isPaused)
    /\ numPixels' = NumPixelsAtBoundary(variant, numPixels)
    /\ pausedByTap' = FALSE
    /\ evSince' = FALSE
    /\ pc' = "isOn"
    /\ tone' = 0
    /\ UNCHANGED << variant, didTogglePause, playTones, isOn, displayStats,
                    state, color, sound, duration, lastNumPixels, thisCyclePomoCt,
                    totalPomoCt, timePassed, clock, lights, phaseLog,
                    trackIdle, idlePassed >>

LoopStep ==
    \/ LoopIsOn
    \/ LoopStats
    \/ LoopStatsClear
    \/ LoopIfPaused
    \/ PauseAnimation
    \/ LoopPauseExit
    \/ LoopMicros
    \/ LoopDidToggle
    \/ LoopClearToggle
    \/ LoopAdvance
    \/ LoopSetPaused

Interrupt ==
    \/ togglePaused
    \/ toggleDisplayMode
    \/ togglePlayTones
    \/ toggleIsOn

TimePasses == \E d \in Ticks : Tick(d)

Next == LoopStep \/ Interrupt \/ TimePasses

Spec == Init /\ [][Next]_vars

SpecIdle == InitIdle /\ [][Next]_vars

----------------------------------------------------------------------------
(* The stats display of the second variant, for any count of work periods *)

\* The start of work period n + 1, the left button just pressed.  A period the
\* second variant has counted down leaves numPixels at 1.
InitStats ==
    /\ variant = 2
    /\ pc = "stats"
    /\ isPaused = FALSE
    /\ didTogglePause = FALSE
    /\ playTones = TRUE
    /\ isOn = TRUE
    /\ displayStats = TRUE
    /\ state = 0
    /\ color = At(colors, 0)
    /\ sound = At(sounds, 0)
    /\ duration = At(durations, 0)
    /\ totalPomoCt \in 0 .. MaxCount
    /\ thisCyclePomoCt = totalPomoCt % NUM_WORK_BEFORE_LONG_BREAK
    /\ numPixels = IF totalPomoCt = 0 THEN 10 ELSE 1
    /\ lastNumPixels = numPixels
    /\ timePassed = 0
    /\ elapsed = 0
    /\ lights = drawNLightsWithColor(10, At(colors, 0))
    /\ tone = 0
    /\ phaseLog = << 0 >>
    /\ evSince = TRUE
    /\ trackIdle = FALSE
    /\ pausedByTap = FALSE
    /\ idleSince = 0
    /\ idlePassed = 0

\* The passes of a running timer whose left button is pressed now and then.
NextStats ==
    \/ toggleDisplayMode
    \/ LoopIsOn
    \/ LoopStats
    \/ LoopStatsClear
    \/ LoopIfPaused
    \/ LoopMicros
    \/ LoopDidToggle
    \/ LoopAdvance

SpecStats == InitStats /\ [][NextStats]_vars

----------------------------------------------------------------------------
(* One pass of the countdown, from any point of a period and for any delta *)

\* Remaining times of period st: around every tenth of its duration.
Remainings(st) ==
    LET D == At(durations, st)
    IN  {r \in {k * (D \div CT_NEOPIXELS) + e :
                   k \in 0 .. CT_NEOPIXELS, e \in (0 - MaxOff) .. MaxOff} :
            0 <= r /\ r <= D}

\* Deltas of a pass that starts with dur left: none, the least, the time left and
\* just more, 2^31 microseconds more than the time left and just more than that,
\* and the largest the clock difference can give.
Deltas(dur) ==
    {0, 1, StepTick, dur, dur + 1, dur + HALF, dur + HALF + 1, BigTick, WORD - 1}

\* The counters and the periods entered when the first period of kind st runs.
CountsAt(st) == IF st = 0 THEN << 0, 0 >> ELSE IF st = 1 THEN << 1, 1 >> ELSE << 0, 4 >>
LogAt(st) ==
    IF st = 0 THEN << 0 >>
    ELSE IF st = 1 THEN << 0, 1 >>
    ELSE << 0, 1, 0, 1, 0, 1, 0, 2 >>

\* The loop is about to count down (line 153, 404): the period's first pass left
\* duration anywhere in the period, this pass has read any delta.
InitPass ==
    /\ variant \in {1, 2}
    /\ pc = "advance"
    /\ isPaused = FALSE
    /\ didTogglePause = FALSE
    /\ playTones = TRUE
    /\ isOn = TRUE
    /\ displayStats = FALSE
    /\ state \in 0 .. 2
    /\ color = At(colors, state)
    /\ sound = At(sounds, state)
    /\ duration \in Remainings(state)
    /\ numPixels = 10
    /\ lastNumPixels = 10
    /\ thisCyclePomoCt = CountsAt(state)[1]
    /\ totalPomoCt = CountsAt(state)[2]
    /\ timePassed \in Deltas(duration)
    /\ elapsed = 0
    /\ lights = drawNLightsWithColor(10, At(colors, state))
    /\ tone = 0
    /\ phaseLog = LogAt(state)
    /\ evSince = TRUE
    /\ trackIdle = FALSE
    /\ pausedByTap = FALSE
    /\ idleSince = 0
    /\ idlePassed = 0

NextPass == LoopAdvance \/ LoopSetPaused

SpecPass == InitPass /\ [][NextPass]_vars

----------------------------------------------------------------------------
(* Properties *)

Last(seq) == seq[Len(seq)]

\* Index of the last long break in a log of periods, 0 if there is none.
LastLong(log) ==
    IF \E i \in DOMAIN log : log[i] = 2
    THEN CHOOSE i \in DOMAIN log : log[i] = 2 /\ \A j \in DOMAIN log : log[j] = 2 => j <= i
    ELSE 0

\* Work periods entered since the last long break, the current one included.
WorksSinceLong(log) ==
    Cardinality({i \in DOMAIN log : i > LastLong(log) /\ log[i] = 0})

PhaseStepOK ==
    state' # state =>
        /\ << state, state' >> \in {<< 0, 1 >>, << 0, 2 >>, << 1, 0 >>, << 2, 0 >>}
        /\ state = 0 =>
              /\ (state' = 2) <=> (WorksSinceLong(phaseLog) = NUM_WORK_BEFORE_LONG_BREAK)
              /\ state' = 2 => thisCyclePomoCt' = 0
              /\ state' = 1 => thisCyclePomoCt' = thisCyclePomoCt + 1

FourWorksOK ==
    /\ Last(phaseLog) = state
    /\ Len(phaseLog) >= 8 => SubSeq(phaseLog, 1, 8) = << 0, 1, 0, 1, 0, 1, 0, 2 >>
    /\ Len(phaseLog) = 8 => totalPomoCt = 4 /\ thisCyclePomoCt = 0

\* C1: the period only changes Work->ShortBreak, Work->LongBreak, ShortBreak->Work
\* or LongBreak->Work; a work period is followed by the long break exactly when it
\* is the 4th work period since the last long break, and the cycle counter is then
\* 0; the first eight periods are Work, Short, Work, Short, Work, Short, Work, Long,
\* with a total of 4 and a cycle count of 0 when the long break is entered.
C1_PhaseCycle == [][PhaseStepOK]_vars /\ []FourWorksOK

\* The long break has been entered after four work periods.
C1_Witness ==
    /\ state = 2
    /\ Len(phaseLog) = 8
    /\ totalPomoCt = 4
    /\ thisCyclePomoCt = 0

\* C2: totalPomoCt grows by exactly 1 in a step that ends a work period and is
\* left unchanged by every other step: a pass that ends a break, a pass without
\* a transition, every interrupt handler, the passing of time.
C2_TotalCount ==
    [][totalPomoCt' = IF state = 0 /\ state' # 0 THEN totalPomoCt + 1 ELSE totalPomoCt]_vars

\* Two work periods and the break between them are completed.
C2_Witness ==
    /\ totalPomoCt = 2
    /\ Len(phaseLog) = 4

TransitionWhenNegative ==
    LoopAdvance =>
        /\ (state' # state) <=> (duration - timePassed < 0)
        /\ state' # state => duration' = At(durations, state')

\* C3: in a pass with delta timePassed the period changes if and only if
\* duration - timePassed < 0, however large the delta; the new period then starts
\* with its full duration, and the transition leaves isPaused true.
C3_TransitionIffNegative ==
    [][TransitionWhenNegative]_vars /\ [][LoopSetPaused => isPaused']_vars

\* C4: no time of a pause that a tap began and a tap ended is subtracted from
\* duration: a delta that holds such time is discarded before the subtraction.
C4_TapPauseNotCharged ==
    (pc = "advance" /\ idlePassed = 1) => timePassed = 0

\* C5: duration is only charged time during which isPaused was false and isOn
\* was true: a delta that holds any other time is discarded before the subtraction.
C5_OnlyRunningTimeCharged ==
    (pc = "advance" /\ idlePassed # 0) => timePassed = 0

WaitsForUser ==
    ~evSince => state' = state /\ duration' = duration

\* C6: after a transition the new period keeps its full duration, and no other
\* transition happens, until an interrupt (tap, button, switch) has fired.
C6_WaitsAtBoundary ==
    [][WaitsForUser]_vars /\ [](~evSince => duration = At(durations, state))

\* Time has passed at the boundary and the loop still shows the pause animation.
C6_Witness ==
    /\ ~evSince
    /\ pc = "whilePaused"
    /\ isPaused
    /\ elapsed > 0
    /\ lights = PauseFrame(variant, numPixels, color, totalPomoCt)

OffIsDark ==
    (~isOn /\ ~isOn') =>
        /\ ~PauseAnimation
        /\ LoopIsOn => lights' = clearPixels /\ UNCHANGED timerState

\* C7: while isOn stays false the loop clears the lights, draws no pause
\* animation and changes no timer state.
C7_OffIsDark == [][OffIsDark]_vars

\* C8: the tone played at a transition is the one of the period that ended
\* (C after Work, E after ShortBreak, G after LongBreak).
C8_ToneOfEndedPeriod ==
    [][(state' # state /\ tone' # 0) => tone' = At(sounds, state)]_vars

ToneStepOK ==
    /\ (tone' # 0) <=> (state' # state /\ playTones)
    /\ tone' # 0 => tone' = sound'
    /\ LoopStep => playTones' = playTones
    /\ playTones' # playTones => (togglePlayTones /\ UNCHANGED << pc, timerState >>)

\* C9: a step plays a tone exactly when it is a transition taken with playTones
\* true; no other step (a pass without transition, a pause or resume, the switch)
\* plays one; playTones is only changed by the right-button handler, which flips it.
C9_ToneOncePerTransition == [][ToneStepOK]_vars

\* A transition has just played its tone.
C9_Witness ==
    /\ pc = "setPaused"
    /\ tone # 0
    /\ playTones

NumPixelsStepOK ==
    /\ (LoopAdvance /\ state' = state) => numPixels' <= numPixels
    /\ LoopSetPaused => numPixels' = CT_NEOPIXELS

\* C10: numPixels does not increase from pass to pass within one period, lies in
\* 1 .. CT_NEOPIXELS while duration >= 0, and is CT_NEOPIXELS right after a
\* transition.
C10_ProgressCount ==
    [][NumPixelsStepOK]_vars /\ [](duration >= 0 => numPixels \in 1 .. CT_NEOPIXELS)

\* Bit i of the count n.
Bit(n, i) == (n \div (2^i)) % 2 = 1

\* The lights that are not dark.
Lit == {i \in Pixels : lights[i] # 0}

\* The stats display has just been drawn.
StatsDrawn == pc = "statsClear"

\* C11: for a count n in 0 .. 2^10 - 1 the stats display shows WORK_COLOR on
\* exactly the lights i for which bit i of n is 1 (light 0 is the least
\* significant bit) and leaves every other light dark: 5 lights {0, 2}, 0 lights
\* none.
C11_BinaryStats ==
    (StatsDrawn /\ totalPomoCt <= 2^CT_NEOPIXELS - 1) =>
        /\ \A i \in Pixels :
              lights[i] = IF Bit(totalPomoCt, i) THEN WORK_COLOR ELSE 0
        /\ totalPomoCt = 5 => Lit = {0, 2}
        /\ totalPomoCt = 0 => Lit = {}

\* The stats display of 5 work periods.
C11_Witness ==
    /\ StatsDrawn
    /\ totalPomoCt = 5
    /\ Lit = {0, 2}

FlagHandler == toggleDisplayMode \/ togglePlayTones \/ toggleIsOn

PureFlip ==
    /\ FlagHandler => UNCHANGED << isPaused, timerState >>
    /\ (isPaused /\ ~isPaused') => togglePaused

\* C12: the handlers of the left button, the right button and the switch leave
\* isPaused, the period, its remaining time and the counters unchanged, and only
\* the tap handler ends a pause.
C12_PureFlips == [][PureFlip]_vars

\* C13: no pass changes state, the counters or duration at a moment when isPaused
\* is true, wherever in the pass a tap arrives.
C13_NoAdvanceWhilePaused ==
    [][(LoopAdvance /\ isPaused) =>
          UNCHANGED << state, thisCyclePomoCt, totalPomoCt, duration >>]_vars

\* C14: an interrupt handler changes none of isPaused, isOn, playTones and the
\* rest of the timer state; it only sets a latch that the loop reads and clears.
C14_HandlersOnlyLatch ==
    [][Interrupt => UNCHANGED << isPaused, isOn, playTones, timerState >>]_vars

\* The lights can only be dark because the switch was off: the pause animation
\* and the progress display light at least one, and only the stats display of a
\* count of 0 (second variant) is dark as well.
DarkOnlyBySwitch == variant = 1 \/ totalPomoCt > 0

\* C15: a pass that runs with the timer on and not paused leaves the current
\* progress on the lights, also when the switch has just turned the timer back
\* on and numPixels did not change: the lights are not left dark.
C15_RedrawAfterPowerOn ==
    [][(LoopAdvance /\ isOn /\ ~isPaused /\ DarkOnlyBySwitch) =>
          lights' # clearPixels]_vars

\* ceil(a / b) for a >= 0, b > 0.
CeilDiv(a, b) == (a + b - 1) \div b

\* clamp(lo, hi, x)
Clamp(lo, hi, x) == IF x < lo THEN lo ELSE IF x > hi THEN hi ELSE x

\* The count of the progress formula with ceil.
CeilCount(dur, st) ==
    Clamp(1, CT_NEOPIXELS, CeilDiv(CT_NEOPIXELS * Shr4(dur), Shr4(At(durations, st))))

\* np is the count of the tenth that dur lies in: tenth k, counted from 1, holds
\* the times from (k - 1)/10 of the period up to, not including, k/10; the full
\* duration counts with the last tenth.
InTenth(np, dur, st) ==
    LET D == Shr4(At(durations, st))
        r == Shr4(dur)
    IN  /\ np \in 1 .. CT_NEOPIXELS
        /\ (np - 1) * D <= CT_NEOPIXELS * r
        /\ np < CT_NEOPIXELS => CT_NEOPIXELS * r < np * D

\* C16 as stated: a pass that starts with duration >= 0 computes
\* clamp(1, CT_NEOPIXELS, ceil(CT_NEOPIXELS * (duration >> 4) / (durations[state] >> 4))).
C16_ProgressCeil ==
    [][(LoopAdvance /\ duration >= 0) => numPixels' = CeilCount(duration, state)]_vars

\* C16 as amended: a pass that starts with duration in 0 .. durations[state]
\* computes min(CT_NEOPIXELS, 1 + floor(CT_NEOPIXELS * (duration >> 4) /
\* (durations[state] >> 4))), the count of the tenth the remaining time lies in:
\* CT_NEOPIXELS at the exact start, 1 at 0, and one more than the ceil formula
\* at an exact tenth of the period other than 0 and the full duration.
C16_ProgressFloor ==
    [][(LoopAdvance /\ duration >= 0) =>
          /\ InTenth(numPixels', duration, state)
          /\ duration = At(durations, state) => numPixels' = CT_NEOPIXELS
          /\ duration = 0 => numPixels' = 1
          /\ numPixels' \in {CeilCount(duration, state), CeilCount(duration, state) + 1}
          /\ numPixels' # CeilCount(duration, state) =>
                \E k \in 1 .. (CT_NEOPIXELS - 1) :
                    CT_NEOPIXELS * Shr4(duration) = k * Shr4(At(durations, state))]_vars

\* A pass with a delta of 0 has counted 5 lights at exactly 4 tenths of a period.
C16_Witness ==
    /\ pc = "isOn"
    /\ CT_NEOPIXELS * duration = 4 * At(durations, state)
    /\ numPixels = 5
    /\ lastNumPixels = 5

\* C17: the delta a pass computes is the true time since the previous reading of
\* the clock whenever that time is below 2^32 microseconds, also when the
\* counter wrapped in between; the pass makes its reading the previous reading.
C17_DeltaIsElapsed ==
    [][(LoopMicros /\ elapsed < WORD) => (timePassed' = elapsed /\ elapsed' = 0)]_vars

\* A pass has computed a delta of five minutes; for the latest values of
\* lastMicros the counter wrapped before the reading.
C17_Witness ==
    /\ pc = "didToggle"
    /\ timePassed = StepTick
    /\ elapsed = 0
    /\ \E lastMicros \in ClockOrigins :
          /\ lastMicros + timePassed >= WORD
          /\ ReadMicros(lastMicros + timePassed) < lastMicros
          /\ DeltaMicros(ReadMicros(lastMicros + timePassed), lastMicros) = timePassed

\* C18: for every remaining time in 0 .. durations[state] and every delta below
\* 2^32 microseconds, duration -= timePassed stores the exact difference: the
\* pass takes the transition when the delta is larger than the remaining time,
\* and otherwise leaves exactly duration - timePassed.
C18_ExactDifference ==
    [][(LoopAdvance /\ duration >= 0) =>
          IF timePassed > duration
          THEN state' # state /\ duration' = At(durations, state')
          ELSE state' = state /\ duration' = duration - timePassed]_vars

\* C19: at the end of every pass thisCyclePomoCt lies in
\* 0 .. NUM_WORK_BEFORE_LONG_BREAK - 1 and equals totalPomoCt modulo
\* NUM_WORK_BEFORE_LONG_BREAK; only a pass that ends a work period changes it.
C19_CycleCount ==
    /\ [](pc = "isOn" =>
            /\ thisCyclePomoCt \in 0 .. (NUM_WORK_BEFORE_LONG_BREAK - 1)
            /\ thisCyclePomoCt = totalPomoCt % NUM_WORK_BEFORE_LONG_BREAK)
    /\ [][thisCyclePomoCt' # thisCyclePomoCt =>
            (LoopAdvance /\ state = 0 /\ state' # 0)]_vars

\* The fifth work period is completed: the counter was reset at the fourth and
\* counts again.
C19_Witness ==
    /\ pc = "isOn"
    /\ totalPomoCt = NUM_WORK_BEFORE_LONG_BREAK + 1
    /\ thisCyclePomoCt = 1
    /\ state = 1

\* C20: for every count, also from 2^10 on, the stats display hands only light
\* indices in 0 .. CT_NEOPIXELS - 1 to setPixelColor.
C20_StatsIndicesInRange ==
    StatsDrawn => BinaryAddressed(totalPomoCt, 0) \subseteq Pixels

====
